---- MODULE Spec2Model ----
(***************************************************************************)
(* A model of minidbg (src/src/minidbg.cpp): the debugging engine          *)
(* (breakpoint table, signal wait, stepping), the advice loop and the      *)
(* batch driver of main, run against a small traced program.               *)
(*                                                                         *)
(* The engine is sequential code that blocks in waitpid; it is modelled    *)
(* as a control stack ctl of frames, one frame per active call, each       *)
(* action running the top frame to its next call or suspension point.      *)
(* The tracee is a separate process: it executes instructions only         *)
(* between a PTRACE_CONT / PTRACE_SINGLESTEP request and the stop that     *)
(* waitpid collects.                                                       *)
(***************************************************************************)
EXTENDS Integers, Sequences, FiniteSets, TLC

VARIABLES
    tstat,        \* tracee: "nochild" | "stopped" | "running" | "stepping" | "zombie" | "gone"
    tev,          \* wait status not yet collected: "none" | "exec" | "trap" | "step" | "segv" | "exit"
    tpc,          \* tracee register rip
    trbp,         \* tracee register rbp (index of the saved-rbp slot in tstk, 0 = none)
    tstk,         \* tracee stack, pushed at the end
    mem,          \* tracee code bytes, by address
    outfile,      \* first line of 1.txt (NoFile when the file does not exist)
    visited,      \* history: lines the tracee executed since the stop at main
    written,      \* history: the tracee of the current run has written 1.txt
    bps,          \* m_breakpoints: address -> [saved, enabled]
    source_map,   \* debugger::source_map: line -> hits
    last,         \* static int last
    ctl,          \* engine control stack
    dpc,          \* position of main / of the REPL
    batch,        \* the batch file, a sequence of lines
    fpos,         \* lines of the batch file consumed so far
    argLine,      \* index of the line the current run was forked with (0 = none)
    strLine,      \* index of the line held in strLine (0 = none)
    success_set,  \* static std::set<int> success_set
    fail_set,     \* static std::set<int> fail_set
    printed,      \* the "likely to be a fault" lines printed, in order
    runs,         \* history: the runs classified so far
    ncmd,         \* REPL commands accepted so far
    command,      \* first token of the last command line
    dispatched,   \* operation the last command line was dispatched to
    call0,        \* history: the state the last break / step / next / finish began in
    frames        \* the frames the last backtrace command printed

tvars == <<tstat, tev, tpc, trbp, tstk, mem, outfile, visited, written>>
evars == <<bps, source_map, last>>
dvars == <<batch, fpos, argLine, strLine, success_set, fail_set, printed, runs>>
cvars == <<ncmd, command, dispatched, call0, frames>>
vars == <<tstat, tev, tpc, trbp, tstk, mem, outfile, visited, written, bps, source_map, last, ctl, dpc,
          batch, fpos, argLine, strLine, success_set, fail_set, printed, runs,
          ncmd, command, dispatched, call0, frames>>

(***************************************************************************)
(* Bounds.                                                                 *)
(***************************************************************************)
\* pairs of lines in the batch file
MaxCases == 2
\* words the tracee stack may hold (bounds the recursion of f)
MaxStack == 6
\* command lines one interactive session accepts
MaxCmds == 5

(***************************************************************************)
(* The traced program.  Addresses 0..4 are library code without line       *)
(* information; [CuLow, CuHigh) is the one compilation unit, holding main  *)
(* and f.  One address holds one instruction.                              *)
(***************************************************************************)
INT3 == 204

Addr == 0..26

Instr(o, t, b) == [op |-> o, tgt |-> t, byte |-> b]

Code ==
    [a \in Addr |->
        CASE a = 0  -> Instr("call", 10, 232)    \* library start-up: call main
          [] a = 1  -> Instr("exit", 0, 15)      \* return address of main
          [] a = 2  -> Instr("br", 4, 116)       \* library function
          [] a = 3  -> Instr("ret", 0, 195)
          [] a = 4  -> Instr("fault", 0, 139)
          [] a = 10 -> Instr("enter", 0, 85)     \* main, line 1
          [] a = 11 -> Instr("br", 13, 116)      \* line 2
          [] a = 12 -> Instr("call", 19, 232)    \* line 3: f()
          [] a = 13 -> Instr("br", 15, 116)      \* line 4
          [] a = 14 -> Instr("call", 2, 232)     \* line 5: library call
          [] a = 15 -> Instr("br", 17, 116)      \* line 6 (not a statement boundary)
          [] a = 16 -> Instr("write", 0, 15)     \* line 6: writes 1.txt, or not
          [] a = 17 -> Instr("leave", 0, 201)    \* line 7
          [] a = 18 -> Instr("ret", 0, 195)      \* line 7
          [] a = 19 -> Instr("enter", 0, 85)     \* f, line 9
          [] a = 20 -> Instr("br", 22, 116)      \* line 10
          [] a = 21 -> Instr("call", 19, 232)    \* line 11: f() again
          [] a = 22 -> Instr("br", 24, 116)      \* line 12
          [] a = 23 -> Instr("fault", 0, 139)    \* line 13: bad dereference
          [] a = 24 -> Instr("leave", 0, 201)    \* line 14
          [] a = 25 -> Instr("ret", 0, 195)      \* line 14
          [] OTHER  -> Instr("pad", 0, 0)]

\* the subprogram DIEs of the compilation unit
Functions ==
    << [name |-> "main", low_pc |-> 10, high_pc |-> 19],
       [name |-> "f",    low_pc |-> 19, high_pc |-> 26] >>

\* the pc range of the compilation unit's root DIE
CuLow == Functions[1].low_pc
CuHigh == Functions[Len(Functions)].high_pc

Entry(a, l, s, e) == [address |-> a, line |-> l, is_stmt |-> s, end_sequence |-> e]

\* the compilation unit's line table, in address order, closed by its end_sequence row
LineTable ==
    << Entry(10, 1, TRUE, FALSE),  Entry(11, 2, TRUE, FALSE),  Entry(12, 3, TRUE, FALSE),
       Entry(13, 4, TRUE, FALSE),  Entry(14, 5, TRUE, FALSE),  Entry(15, 6, FALSE, FALSE),
       Entry(16, 6, TRUE, FALSE),  Entry(17, 7, TRUE, FALSE),  Entry(19, 9, TRUE, FALSE),
       Entry(20, 10, TRUE, FALSE), Entry(21, 11, TRUE, FALSE), Entry(22, 12, TRUE, FALSE),
       Entry(23, 13, TRUE, FALSE), Entry(24, 14, TRUE, FALSE), Entry(CuHigh, 0, TRUE, TRUE) >>

NoFile == 0
Answers == {1, 2}

\* values an uninitialised register dump may hold once the tracee is lost
GarbagePcs == {5, 12}

Max(S) == CHOOSE x \in S : \A y \in S : y <= x
Min(S) == CHOOSE x \in S : \A y \in S : x <= y

(***************************************************************************)
(* Debug-information lookups.  Index 0 stands for std::out_of_range.       *)
(***************************************************************************)
\* line_table::find_address: the row whose address range holds pc
FindAddress(pc) ==
    LET hit == {i \in 1..(Len(LineTable) - 1) :
                    /\ LineTable[i].address <= pc
                    /\ LineTable[i + 1].address > pc
                    /\ ~LineTable[i].end_sequence}
    IN  IF hit = {} THEN 0 ELSE Min(hit)

get_line_entry_from_pc(pc) ==
    IF pc >= CuLow /\ pc < CuHigh THEN FindAddress(pc) ELSE 0

get_function_from_pc(pc) ==
    LET hit == {i \in 1..Len(Functions) :
                    pc >= Functions[i].low_pc /\ pc < Functions[i].high_pc}
    IN  IF pc >= CuLow /\ pc < CuHigh /\ hit # {} THEN Min(hit) ELSE 0

LineOf(pc) == LineTable[get_line_entry_from_pc(pc)].line

(***************************************************************************)
(* The tracee: one instruction per step while resumed.                     *)
(***************************************************************************)
OrigMem == [a \in Addr |-> Code[a].byte]

ReadStack(i) == IF i \in 1..Len(tstk) THEN tstk[i] ELSE 0

\* a fall-through into a call is taken only while the stack has room for its frame
MayFallThrough(pc) == Code[pc + 1].op = "call" => Len(tstk) + 2 <= MaxStack

Executed ==
    IF tstat = "stepping" THEN tstat' = "stopped" /\ tev' = "step"
                          ELSE tstat' = tstat /\ tev' = tev

\* the step executes an instruction of a source line inside the advice loop
Stepped ==
    /\ mem[tpc] # INT3
    /\ Code[tpc].op \notin {"fault", "exit"}
    /\ get_line_entry_from_pc(tpc) # 0
    /\ ctl # <<>> /\ ctl[1].l \in {"raLoop", "raFin"}

TraceeStep ==
    /\ tstat \in {"running", "stepping"}
    /\ IF mem[tpc] = INT3
       THEN /\ tpc' = tpc + 1
            /\ tstat' = "stopped" /\ tev' = "trap"
            /\ UNCHANGED <<trbp, tstk, outfile>>
       ELSE LET i == Code[tpc] IN
            CASE i.op = "br" ->
                    /\ \E taken \in BOOLEAN :
                          /\ taken \/ MayFallThrough(tpc)
                          /\ tpc' = IF taken THEN i.tgt ELSE tpc + 1
                    /\ Executed
                    /\ UNCHANGED <<trbp, tstk, outfile>>
              [] i.op = "call" ->
                    /\ tstk' = Append(tstk, tpc + 1)
                    /\ tpc' = i.tgt /\ Executed
                    /\ UNCHANGED <<trbp, outfile>>
              [] i.op = "enter" ->
                    /\ tstk' = Append(tstk, trbp)
                    /\ trbp' = Len(tstk) + 1
                    /\ tpc' = tpc + 1 /\ Executed
                    /\ UNCHANGED outfile
              [] i.op = "leave" ->
                    /\ trbp' = ReadStack(trbp)
                    /\ tstk' = SubSeq(tstk, 1, trbp - 1)
                    /\ tpc' = tpc + 1 /\ Executed
                    /\ UNCHANGED outfile
              [] i.op = "ret" ->
                    /\ tpc' = ReadStack(Len(tstk))
                    /\ tstk' = SubSeq(tstk, 1, Len(tstk) - 1)
                    /\ Executed
                    /\ UNCHANGED <<trbp, outfile>>
              [] i.op = "write" ->
                    /\ \E v \in Answers : outfile' = v
                    /\ tpc' = tpc + 1 /\ Executed
                    /\ UNCHANGED <<trbp, tstk>>
              [] i.op = "fault" ->
                    /\ tstat' = "stopped" /\ tev' = "segv"
                    /\ UNCHANGED <<tpc, trbp, tstk, outfile>>
              [] i.op = "exit" ->
                    /\ tstat' = "zombie" /\ tev' = "exit"
                    /\ UNCHANGED <<tpc, trbp, tstk, outfile>>
    /\ visited' = IF Stepped THEN visited \cup {LineOf(tpc)} ELSE visited
    /\ written' = (written \/ (mem[tpc] # INT3 /\ Code[tpc].op = "write"))
    /\ UNCHANGED <<mem, evars, ctl, dpc, dvars, cvars>>

(***************************************************************************)
(* Process tracing.  A request succeeds only on a stopped tracee; on a     *)
(* tracee that is lost it fails: a peek returns -1, a poke does nothing,   *)
(* a register dump is left uninitialised.                                  *)
(***************************************************************************)
Alive == tstat = "stopped"

PeekByte(m, a) == IF Alive THEN m[a] ELSE 255

Poke(m, a, b) == IF Alive THEN [m EXCEPT ![a] = b] ELSE m

\* the values get_pc() may return
PcRead == IF Alive THEN {tpc} ELSE GarbagePcs

\* read_memory(rbp + 8) and read_memory(rbp)
ReturnAddress == IF Alive THEN ReadStack(trbp - 1) ELSE 0

(***************************************************************************)
(* Breakpoints (breakpoint.hpp is not among the sources: spec 4.3).        *)
(***************************************************************************)
NewBp == [saved |-> 0, enabled |-> FALSE]

BpEnable(bp, m, a) ==
    IF bp.enabled THEN [bp |-> bp, m |-> m]
    ELSE [bp |-> [saved |-> PeekByte(m, a), enabled |-> TRUE], m |-> Poke(m, a, INT3)]

BpDisable(bp, m, a) ==
    IF ~bp.enabled THEN [bp |-> bp, m |-> m]
    ELSE [bp |-> [bp EXCEPT !.enabled = FALSE], m |-> Poke(m, a, bp.saved)]

\* the state an engine call works on: the breakpoint table and tracee memory
set_breakpoint_at_address(b, m, addr) ==
    LET r == BpEnable(NewBp, m, addr)
    IN  [b |-> [x \in (DOMAIN b) \cup {addr} |-> IF x = addr THEN r.bp ELSE b[x]],
         m |-> r.m]

remove_breakpoint(b, m, addr) ==
    LET r == IF b[addr].enabled THEN BpDisable(b[addr], m, addr)
                                ELSE [bp |-> b[addr], m |-> m]
    IN  [b |-> [x \in (DOMAIN b) \ {addr} |-> b[x]], m |-> r.m]

\* the DIEs named name, in order; ok is FALSE when a lookup throws
RECURSIVE SetAtFunctionFrom(_, _, _, _)
SetAtFunctionFrom(i, name, b, m) ==
    IF i > Len(Functions) THEN [b |-> b, m |-> m, ok |-> TRUE]
    ELSE IF Functions[i].name # name THEN SetAtFunctionFrom(i + 1, name, b, m)
    ELSE LET entry == get_line_entry_from_pc(Functions[i].low_pc) IN
         IF entry = 0 THEN [b |-> b, m |-> m, ok |-> FALSE]
         ELSE LET r == set_breakpoint_at_address(b, m, LineTable[entry + 1].address)
              IN  SetAtFunctionFrom(i + 1, name, r.b, r.m)

set_breakpoint_at_function(name, b, m) == SetAtFunctionFrom(1, name, b, m)

(***************************************************************************)
(* The engine's control stack.                                             *)
(***************************************************************************)
Frame(l, a, t) == [l |-> l, a |-> a, t |-> t]
F(l) == Frame(l, 0, <<>>)

Top == ctl[Len(ctl)]
TopIs(l) == ctl # <<>> /\ Top.l = l
Popped == SubSeq(ctl, 1, Len(ctl) - 1)
Replaced(f) == Append(Popped, f)
Called(f, g) == Append(Append(Popped, f), g)

\* the try block of runAdvice is the only handler; without it the exception
\* leaves main and the process is terminated
Handlers == {i \in 1..Len(ctl) : ctl[i].l = "raLoop"}

Throw ==
    IF Handlers = {}
    THEN ctl' = <<>> /\ dpc' = "aborted"
    ELSE ctl' = Append(SubSeq(ctl, 1, Max(Handlers) - 1), F("raCatch")) /\ dpc' = dpc

Return == ctl' = Popped /\ dpc' = dpc

EmptyMap == [x \in {} |-> 0]

\* print_source_advice: the hit counter and the de-duplication line
print_source_advice(sm, lst, line) ==
    IF lst = line THEN [sm |-> sm, last |-> lst]
    ELSE [sm |-> [x \in (DOMAIN sm) \cup {line} |->
                      IF x \in DOMAIN sm
                      THEN (IF x = line THEN sm[x] + 1 ELSE sm[x])
                      ELSE 1],
          last |-> line]

Advise(line) ==
    LET r == print_source_advice(source_map, last, line)
    IN  source_map' = r.sm /\ last' = r.last

(***************************************************************************)
(* wait_for_signal and handle_sigtrap.                                     *)
(***************************************************************************)
\* what get_signal_info() may report: the signal of the stop, or anything
\* when the request failed and siginfo_t was never written
SigInfo(lost) == IF lost THEN {"trap", "step", "segv"} ELSE {tev}

handle_sigtrap(lost) ==
    /\ tpc' = IF lost THEN tpc ELSE tpc - 1
    /\ \E p \in (IF lost THEN GarbagePcs ELSE {tpc - 1}) :
          LET entry == get_line_entry_from_pc(p) IN
          IF entry = 0
          THEN Throw /\ UNCHANGED <<source_map, last>>
          ELSE Return /\ Advise(LineTable[entry].line)

wait_for_signal ==
    /\ TopIs("wait")
    /\ tev # "none" \/ tstat = "gone"
    /\ LET lost == tev = "exit" \/ tstat = "gone" IN
       /\ tstat' = IF lost THEN "gone" ELSE tstat
       /\ tev' = "none"
       /\ \E sig \in SigInfo(lost) :
             IF sig = "trap"
             THEN handle_sigtrap(lost)
             ELSE Return /\ UNCHANGED <<tpc, source_map, last>>
    /\ UNCHANGED <<trbp, tstk, mem, outfile, visited, written, bps, dvars, cvars>>

(***************************************************************************)
(* Resumption and single-stepping.                                         *)
(***************************************************************************)
Resume(how) == tstat' = IF Alive THEN how ELSE tstat

continue_execution ==
    /\ TopIs("cont0")
    /\ ctl' = Called(F("cont1"), F("sob0"))
    /\ UNCHANGED <<tvars, evars, dpc, dvars, cvars>>

continue_execution_cont ==
    /\ TopIs("cont1")
    /\ Resume("running")
    /\ ctl' = Replaced(F("wait"))
    /\ UNCHANGED <<tev, tpc, trbp, tstk, mem, outfile, visited, written, evars, dpc, dvars, cvars>>

single_step_instruction ==
    /\ TopIs("ss0")
    /\ Resume("stepping")
    /\ ctl' = Replaced(F("wait"))
    /\ UNCHANGED <<tev, tpc, trbp, tstk, mem, outfile, visited, written, evars, dpc, dvars, cvars>>

step_over_breakpoint ==
    /\ TopIs("sob0")
    /\ \E p \in PcRead :
          IF p \in DOMAIN bps /\ bps[p].enabled
          THEN LET r == BpDisable(bps[p], mem, p) IN
               /\ bps' = [bps EXCEPT ![p] = r.bp]
               /\ mem' = r.m
               /\ ctl' = Called(Frame("sob1", p, <<>>), F("ss0"))
          ELSE /\ ctl' = Popped
               /\ UNCHANGED <<bps, mem>>
    /\ UNCHANGED <<tstat, tev, tpc, trbp, tstk, outfile, visited, written, source_map, last, dpc, dvars, cvars>>

\* a return from step_over_breakpoint that leaves the breakpoint disabled
step_over_breakpoint_leave ==
    /\ TopIs("sob1")
    /\ ctl' = Popped
    /\ UNCHANGED <<tvars, evars, dpc, dvars, cvars>>

step_over_breakpoint_enable ==
    /\ TopIs("sob1")
    /\ LET r == BpEnable(bps[Top.a], mem, Top.a) IN
       /\ bps' = [bps EXCEPT ![Top.a] = r.bp]
       /\ mem' = r.m
    /\ ctl' = Popped
    /\ UNCHANGED <<tstat, tev, tpc, trbp, tstk, outfile, visited, written, source_map, last, dpc, dvars, cvars>>

single_step_instruction_with_breakpoint_check ==
    /\ TopIs("ssbc0")
    /\ \E p \in PcRead :
          ctl' = Called(Frame("ssbc1", p, <<>>),
                        IF p \in DOMAIN bps THEN F("sob0") ELSE F("ss0"))
    /\ UNCHANGED <<tvars, evars, dpc, dvars, cvars>>

single_step_instruction_print ==
    /\ TopIs("ssbc1")
    /\ \E p \in PcRead :
          LET entry == get_line_entry_from_pc(p) IN
          IF entry = 0
          THEN Throw /\ UNCHANGED <<source_map, last>>
          ELSE Return /\ Advise(LineTable[entry].line)
    /\ UNCHANGED <<tvars, bps, dvars, cvars>>

(***************************************************************************)
(* Advice mode.                                                            *)
(***************************************************************************)
step_in_advice ==
    /\ TopIs("sia0")
    /\ \E p \in PcRead :
          LET entry == get_line_entry_from_pc(p) IN
          IF entry = 0
          THEN Throw
          ELSE ctl' = Replaced(Frame("sia1", LineTable[entry].line, <<>>)) /\ dpc' = dpc
    /\ UNCHANGED <<tvars, evars, dvars, cvars>>

step_in_advice_loop ==
    /\ TopIs("sia1")
    /\ \E p \in PcRead :
          LET entry == get_line_entry_from_pc(p) IN
          IF entry = 0
          THEN Throw
          ELSE IF LineTable[entry].line = Top.a
          THEN ctl' = Append(ctl, F("ssbc0")) /\ dpc' = dpc
          ELSE Return
    /\ UNCHANGED <<tvars, evars, dvars, cvars>>

\* waitpid for the exec stop, then the breakpoint at main and the first continue
runAdvice ==
    /\ TopIs("ra0")
    /\ tev # "none" \/ tstat = "gone"
    /\ tev' = "none"
    /\ LET r == set_breakpoint_at_function("main", bps, mem) IN
       /\ bps' = r.b
       /\ mem' = r.m
       /\ IF r.ok THEN ctl' = Called(F("ra1"), F("cont0")) /\ dpc' = dpc
                  ELSE Throw
    /\ UNCHANGED <<tstat, tpc, trbp, tstk, outfile, visited, written, source_map, last, dvars, cvars>>

\* while (true) { try { step_in_advice(); } ... }
runAdvice_loop ==
    /\ TopIs("ra1") \/ TopIs("raLoop")
    /\ ctl' = Called(F("raLoop"), F("sia0"))
    /\ UNCHANGED <<tvars, evars, dpc, dvars, cvars>>

\* a catch clause without its break: the loop goes on after the continue
runAdvice_catch_again ==
    /\ TopIs("raCatch")
    /\ ctl' = Called(F("raLoop"), F("cont0"))
    /\ UNCHANGED <<tvars, evars, dpc, dvars, cvars>>

\* catch (std::out_of_range) { continue_execution(); break; }
runAdvice_catch ==
    /\ TopIs("raCatch")
    /\ ctl' = Called(F("raFin"), F("cont0"))
    /\ UNCHANGED <<tvars, evars, dpc, dvars, cvars>>

\* the conclusion is printed and last is reset
runAdvice_return ==
    /\ TopIs("raFin")
    /\ last' = 0
    /\ ctl' = Popped
    /\ UNCHANGED <<tvars, bps, source_map, dpc, dvars, cvars>>

(***************************************************************************)
(* Source-level stepping of the interactive engine.                        *)
(***************************************************************************)
step_in ==
    /\ TopIs("si0")
    /\ \E p \in PcRead :
          LET entry == get_line_entry_from_pc(p) IN
          IF entry = 0
          THEN Throw
          ELSE ctl' = Replaced(Frame("si1", LineTable[entry].line, <<>>)) /\ dpc' = dpc
    /\ UNCHANGED <<tvars, evars, dvars, cvars>>

\* a step_in that returns without looking at the line
step_in_return ==
    /\ TopIs("si1")
    /\ Return
    /\ UNCHANGED <<tvars, evars, dvars, cvars>>

step_in_loop ==
    /\ TopIs("si1")
    /\ \E p \in PcRead :
          LET entry == get_line_entry_from_pc(p) IN
          IF entry = 0
          THEN Throw
          ELSE IF LineTable[entry].line = Top.a
          THEN ctl' = Append(ctl, F("ssbc0")) /\ dpc' = dpc
          ELSE Return
    /\ UNCHANGED <<tvars, evars, dvars, cvars>>

\* step_out up to its continue_execution: the breakpoint at the return address
StepOutArm(b, m, return_address) ==
    IF return_address \notin DOMAIN b
    THEN LET r == set_breakpoint_at_address(b, m, return_address)
         IN  [b |-> r.b, m |-> r.m, t |-> <<return_address>>]
    ELSE [b |-> b, m |-> m, t |-> <<>>]

step_out ==
    /\ TopIs("so0")
    /\ LET r == StepOutArm(bps, mem, ReturnAddress) IN
       /\ bps' = r.b
       /\ mem' = r.m
       /\ ctl' = Called(Frame("so1", 0, r.t), F("cont0"))
    /\ UNCHANGED <<tstat, tev, tpc, trbp, tstk, outfile, visited, written, source_map, last, dpc,
                   dvars, cvars>>

\* a clean-up that removes nothing
RemoveNone(b, m, t) == [b |-> b, m |-> m]

\* the breakpoints of the list are removed, first to last
RECURSIVE RemoveAll(_, _, _)
RemoveAll(b, m, t) ==
    IF t = <<>> THEN [b |-> b, m |-> m]
    ELSE LET r == remove_breakpoint(b, m, Head(t)) IN RemoveAll(r.b, r.m, Tail(t))

step_out_remove ==
    /\ TopIs("so1")
    /\ LET r == RemoveAll(bps, mem, Top.t) IN bps' = r.b /\ mem' = r.m
    /\ ctl' = Popped
    /\ UNCHANGED <<tstat, tev, tpc, trbp, tstk, outfile, visited, written, source_map, last, dpc,
                   dvars, cvars>>

\* the loop of step_over over the line table from row i up to func_end
RECURSIVE StepOverLines(_, _, _, _, _, _)
StepOverLines(i, func_end, start_address, b, m, t) ==
    IF ~(LineTable[i].address < func_end) THEN [b |-> b, m |-> m, t |-> t]
    ELSE IF LineTable[i].address # start_address /\ LineTable[i].address \notin DOMAIN b
    THEN LET r == set_breakpoint_at_address(b, m, LineTable[i].address)
         IN  StepOverLines(i + 1, func_end, start_address, r.b, r.m,
                           Append(t, LineTable[i].address))
    ELSE StepOverLines(i + 1, func_end, start_address, b, m, t)

\* step_over up to its continue_execution
StepOverArm(b, m, func, start_line, return_address) ==
    LET l == StepOverLines(get_line_entry_from_pc(Functions[func].low_pc),
                           Functions[func].high_pc, LineTable[start_line].address,
                           b, m, <<>>)
    IN  IF return_address \notin DOMAIN l.b
        THEN LET r == set_breakpoint_at_address(l.b, l.m, return_address)
             IN  [b |-> r.b, m |-> r.m, t |-> Append(l.t, return_address)]
        ELSE l

step_over ==
    /\ TopIs("sv0")
    /\ \E p \in PcRead :
          LET func == get_function_from_pc(p)
              start_line == get_line_entry_from_pc(p)
          IN  IF func = 0 \/ get_line_entry_from_pc(Functions[func].low_pc) = 0
                          \/ start_line = 0
              THEN Throw /\ UNCHANGED <<bps, mem>>
              ELSE LET r == StepOverArm(bps, mem, func, start_line, ReturnAddress) IN
                   /\ bps' = r.b
                   /\ mem' = r.m
                   /\ ctl' = Called(Frame("sv1", 0, r.t), F("cont0"))
                   /\ dpc' = dpc
    /\ UNCHANGED <<tstat, tev, tpc, trbp, tstk, outfile, visited, written, source_map, last,
                   dvars, cvars>>

step_over_remove ==
    /\ TopIs("sv1")
    /\ LET r == RemoveAll(bps, mem, Top.t) IN bps' = r.b /\ mem' = r.m
    /\ ctl' = Popped
    /\ UNCHANGED <<tstat, tev, tpc, trbp, tstk, outfile, visited, written, source_map, last, dpc,
                   dvars, cvars>>

(***************************************************************************)
(* Command dispatch.  A string is a sequence of characters.                *)
(***************************************************************************)
is_prefix(s, of) ==
    IF Len(s) > Len(of) THEN FALSE
    ELSE \A i \in 1..Len(s) : s[i] = of[i]

is_suffix(s, of) ==
    IF Len(s) > Len(of) THEN FALSE
    ELSE \A i \in 1..Len(s) : s[i] = of[i + (Len(of) - Len(s))]

K_cont == <<"c", "o", "n", "t">>
K_continue == <<"c", "o", "n", "t", "i", "n", "u", "e">>
K_break == <<"b", "r", "e", "a", "k">>
K_step == <<"s", "t", "e", "p">>
K_next == <<"n", "e", "x", "t">>
K_finish == <<"f", "i", "n", "i", "s", "h">>
K_stepi == <<"s", "t", "e", "p", "i">>
K_status == <<"s", "t", "a", "t", "u", "s">>
K_register == <<"r", "e", "g", "i", "s", "t", "e", "r">>
K_memory == <<"m", "e", "m", "o", "r", "y">>
K_variables == <<"v", "a", "r", "i", "a", "b", "l", "e", "s">>
K_backtrace == <<"b", "a", "c", "k", "t", "r", "a", "c", "e">>
K_symbol == <<"s", "y", "m", "b", "o", "l">>

\* the if / else-if chain of handle_command: the operation a first token selects
Dispatch(cmd) ==
    IF is_prefix(cmd, K_cont) THEN "continue"
    ELSE IF is_prefix(cmd, K_break) THEN "break"
    ELSE IF is_prefix(cmd, K_step) THEN "step"
    ELSE IF is_prefix(cmd, K_next) THEN "next"
    ELSE IF is_prefix(cmd, K_finish) THEN "finish"
    ELSE IF is_prefix(cmd, K_stepi) THEN "stepi"
    ELSE IF is_prefix(cmd, K_status) THEN "status"
    ELSE IF is_prefix(cmd, K_register) THEN "register"
    ELSE IF is_prefix(cmd, K_memory) THEN "memory"
    ELSE IF is_prefix(cmd, K_variables) THEN "variables"
    ELSE IF is_prefix(cmd, K_backtrace) THEN "backtrace"
    ELSE IF is_prefix(cmd, K_symbol) THEN "symbol"
    ELSE "unknown"

\* the name of the compilation unit and the files a break command may name
CuName == <<"x", "/", "s", ".", "c">>
F_s_c == <<"s", ".", "c">>
F_c == <<"c">>
F_t_c == <<"t", ".", "c">>

\* for (entry : lt) if (entry.is_stmt && entry.line == line) { set; return; }
set_breakpoint_at_source_line(file, line, b, m) ==
    LET hit == {i \in 1..Len(LineTable) :
                    LineTable[i].is_stmt /\ LineTable[i].line = line}
    IN  IF is_suffix(file, CuName) /\ hit # {}
        THEN set_breakpoint_at_address(b, m, LineTable[Min(hit)].address)
        ELSE [b |-> b, m |-> m]

\* the interactive session's command lines: the first token and the parsed argument
NoArg == [kind |-> "none", addr |-> 0, file |-> <<>>, line |-> 0, name |-> ""]
BreakAt(a) == [kind |-> "addr", addr |-> a, file |-> <<>>, line |-> 0, name |-> ""]
BreakLine(f, l) == [kind |-> "line", addr |-> 0, file |-> f, line |-> l, name |-> ""]
BreakFn(n) == [kind |-> "name", addr |-> 0, file |-> <<>>, line |-> 0, name |-> n]

\* the frame the tracee is in: before the frame pointer is set up and after it is
\* released the return address is the top of the stack, else it is above the saved
\* frame pointer; the stack of the caller is what lies below the return address
InPrologueOrEpilogue == Code[tpc].op \in {"enter", "ret"}
FrameReturn ==
    IF InPrologueOrEpilogue THEN ReadStack(Len(tstk)) ELSE ReadStack(trbp - 1)
CallerDepth ==
    IF InPrologueOrEpilogue THEN Len(tstk) - 1 ELSE trbp - 2

\* the state a break, step, next or finish command starts from
CallRecord(a) ==
    [b |-> bps, m |-> mem, arg |-> a, pc |-> tpc, ra |-> ReturnAddress,
     ret |-> FrameReturn, depth |-> CallerDepth]

\* no break, step, next or finish command is on record
NoCall == [b |-> EmptyMap, m |-> EmptyMap, arg |-> NoArg, pc |-> 0, ra |-> 0,
           ret |-> 0, depth |-> 0]

BreakAddrs == {13, 16}
BreakFiles == {F_s_c, F_c, F_t_c}
BreakLines == {6, 8}
BreakArgs == {BreakAt(a) : a \in BreakAddrs}
                \cup {BreakLine(f, l) : f \in BreakFiles, l \in BreakLines}
                \cup {BreakFn("main"), BreakFn("f")}
DbgTokens == {K_cont, K_continue, K_step, K_next, K_finish, K_stepi, K_status, K_backtrace}
CommandLines ==
    {[cmd |-> t, arg |-> NoArg] : t \in DbgTokens}
        \cup {[cmd |-> K_break, arg |-> a] : a \in BreakArgs}

\* the break command: by address, by file:line, by function name
Break(arg, b, m) ==
    CASE arg.kind = "addr" ->
            LET r == set_breakpoint_at_address(b, m, arg.addr)
            IN  [b |-> r.b, m |-> r.m, ok |-> TRUE]
      [] arg.kind = "line" ->
            LET r == set_breakpoint_at_source_line(arg.file, arg.line, b, m)
            IN  [b |-> r.b, m |-> r.m, ok |-> TRUE]
      [] OTHER -> set_breakpoint_at_function(arg.name, b, m)

\* output_frame: the frame number and the function printed
OutputFrame(out, func) == Append(out, [number |-> Len(out), func |-> func])

\* the while loop of print_backtrace, with the frames printed so far; ok is FALSE
\* when get_function_from_pc throws, derefs counts the saved frame pointers read
RECURSIVE BacktraceLoop(_, _, _, _, _)
BacktraceLoop(current_func, frame_pointer, return_address, out, derefs) ==
    IF Functions[current_func].name = "main"
    THEN [frames |-> out, ok |-> TRUE, derefs |-> derefs]
    ELSE LET func == get_function_from_pc(return_address) IN
         IF func = 0 THEN [frames |-> out, ok |-> FALSE, derefs |-> derefs]
         ELSE BacktraceLoop(func, ReadStack(frame_pointer),
                            ReadStack(ReadStack(frame_pointer) - 1),
                            OutputFrame(out, func), derefs + 1)

print_backtrace(pc, frame_pointer) ==
    LET current_func == get_function_from_pc(pc) IN
    IF current_func = 0 THEN [frames |-> <<>>, ok |-> FALSE, derefs |-> 0]
    ELSE BacktraceLoop(current_func, frame_pointer, ReadStack(frame_pointer - 1),
                       OutputFrame(<<>>, current_func), 0)

\* debugger::run: the exec stop is collected, then the prompt loop
run ==
    /\ TopIs("run0")
    /\ tev # "none" \/ tstat = "gone"
    /\ tev' = "none"
    /\ ctl' = Replaced(F("repl"))
    /\ UNCHANGED <<tstat, tpc, trbp, tstk, mem, outfile, visited, written, evars, dpc, dvars, cvars>>

handle_command ==
    /\ TopIs("repl")
    /\ ncmd < MaxCmds
    /\ tstat # "gone"
    /\ \E cl \in CommandLines :
          LET op == Dispatch(cl.cmd) IN
          /\ command' = cl.cmd
          /\ dispatched' = op
          /\ frames' = IF op = "backtrace" THEN print_backtrace(tpc, trbp).frames ELSE <<>>
          /\ call0' = IF op \in {"break", "step", "next", "finish"}
                       THEN CallRecord(cl.arg)
                       ELSE NoCall
          /\ CASE op = "continue" ->
                    ctl' = Append(ctl, F("cont0")) /\ UNCHANGED <<bps, mem, dpc>>
               [] op = "break" ->
                    LET r == Break(cl.arg, bps, mem) IN
                    /\ bps' = r.b
                    /\ mem' = r.m
                    /\ IF r.ok THEN UNCHANGED <<ctl, dpc>> ELSE Throw
               [] op = "step" ->
                    ctl' = Append(ctl, F("si0")) /\ UNCHANGED <<bps, mem, dpc>>
               [] op = "next" ->
                    ctl' = Append(ctl, F("sv0")) /\ UNCHANGED <<bps, mem, dpc>>
               [] op = "finish" ->
                    ctl' = Append(ctl, F("so0")) /\ UNCHANGED <<bps, mem, dpc>>
               [] op = "stepi" ->
                    /\ ctl' = Append(Append(ctl, F("status")), F("ssbc0"))
                    /\ UNCHANGED <<bps, mem, dpc>>
               [] op = "status" ->
                    ctl' = Append(ctl, F("status")) /\ UNCHANGED <<bps, mem, dpc>>
               [] op = "backtrace" ->
                    /\ IF print_backtrace(tpc, trbp).ok THEN UNCHANGED <<ctl, dpc>> ELSE Throw
                    /\ UNCHANGED <<bps, mem>>
               [] OTHER -> UNCHANGED <<ctl, bps, mem, dpc>>
    /\ ncmd' = ncmd + 1
    /\ UNCHANGED <<tstat, tev, tpc, trbp, tstk, outfile, visited, written, source_map, last, dvars>>

\* the line entry of the current PC is looked up and printed (status, end of stepi)
print_current_line ==
    /\ TopIs("status")
    /\ \E p \in PcRead :
          IF get_line_entry_from_pc(p) = 0 THEN Throw ELSE Return
    /\ UNCHANGED <<tvars, evars, dvars, cvars>>

(***************************************************************************)
(* The batch driver (main).                                                *)
(***************************************************************************)
RECURSIVE Ascending(_)
Ascending(S) == IF S = {} THEN <<>> ELSE <<Min(S)>> \o Ascending(S \ {Min(S)})

\* for (it = fail_set.begin(); ...) if (success_set.find(*it) == success_set.end()) print
RECURSIVE ReportFrom(_, _)
ReportFrom(todo, ss) ==
    IF todo = <<>> THEN <<>>
    ELSE (IF Head(todo) \notin ss THEN <<Head(todo)>> ELSE <<>>) \o ReportFrom(Tail(todo), ss)

\* a report that forgets the success_set test
AnalyzeEveryFailLine(fs, ss) == Ascending(fs)

Analyze(fs, ss) == ReportFrom(Ascending(fs), ss)

\* a classification that files every run under fail_set
ClassifyAlwaysFail(actual, expected, sm, ss, fs) ==
    [ss |-> ss, fs |-> fs \cup DOMAIN sm, sm |-> EmptyMap]

\* if (line == strLine) ... else if (line != strLine) ...
Classify(actual, expected, sm, ss, fs) ==
    IF actual = expected
    THEN [ss |-> ss \cup DOMAIN sm, fs |-> fs, sm |-> EmptyMap]
    ELSE [ss |-> ss, fs |-> fs \cup DOMAIN sm, sm |-> EmptyMap]

\* while (getline(file, strLine)) { ... fork() ...
DriverFork ==
    /\ dpc = "read"
    /\ fpos < Len(batch)
    /\ fpos' = fpos + 1
    /\ strLine' = fpos + 1
    /\ \E forked \in BOOLEAN :
          IF forked
          THEN /\ argLine' = fpos + 1
               /\ tstat' = "stopped" /\ tev' = "exec"
               /\ tpc' = 0 /\ trbp' = 0 /\ tstk' = <<>>
               /\ mem' = OrigMem /\ visited' = {} /\ written' = FALSE
               /\ bps' = EmptyMap /\ source_map' = EmptyMap
               /\ ctl' = <<F("ra0")>>
               /\ dpc' = "run"
          ELSE UNCHANGED <<argLine, tstat, tev, tpc, trbp, tstk, mem, visited, written, bps,
                           source_map, ctl, dpc>>
    /\ UNCHANGED <<outfile, last, batch, success_set, fail_set, printed, runs, cvars>>

\* runAdvice has returned: waitpid(pid, NULL, 0)
DriverWaitpid ==
    /\ dpc = "run"
    /\ ctl = <<>>
    /\ tstat \in {"zombie", "gone"}
    /\ tstat' = "gone"
    /\ tev' = "none"
    /\ dpc' = "classify"
    /\ UNCHANGED <<tpc, trbp, tstk, mem, outfile, visited, written, evars, ctl, dvars, cvars>>

\* the text of the line strLine holds; index 0 is the empty string, which is also
\* what the first line of an absent 1.txt reads as
LineText(i) == IF i = 0 THEN NoFile ELSE batch[i]

\* getline(file, strLine) for the expected answer: at the end of the file strLine
\* keeps its text (the last line had no newline) or is emptied (it had one)
ExpectedLine ==
    IF fpos < Len(batch) THEN {fpos + 1} ELSE {strLine, 0}

\* the expected answer, the first line of 1.txt, the comparison
DriverClassify ==
    /\ dpc = "classify"
    /\ \E idx \in ExpectedLine :
          LET r == Classify(outfile, LineText(idx), source_map, success_set, fail_set)
          IN  /\ fpos' = IF fpos < Len(batch) THEN fpos + 1 ELSE fpos
              /\ strLine' = idx
              /\ success_set' = r.ss
              /\ fail_set' = r.fs
              /\ source_map' = r.sm
              /\ runs' = Append(runs, [arg |-> argLine, exp |-> idx,
                                       pass |-> outfile = LineText(idx),
                                       keys |-> DOMAIN source_map])
    /\ dpc' = "read"
    /\ UNCHANGED <<tvars, bps, last, ctl, batch, argLine, printed, cvars>>

\* the batch file is exhausted: the report
DriverAnalyze ==
    /\ dpc = "read"
    /\ fpos >= Len(batch)
    /\ printed' = Analyze(fail_set, success_set)
    /\ dpc' = "done"
    /\ UNCHANGED <<tvars, evars, ctl, batch, fpos, argLine, strLine, success_set, fail_set,
                   runs, cvars>>

BatchFiles == UNION {[1..(2 * n) -> Answers] : n \in 0..MaxCases}

Init ==
    /\ tstat = "nochild" /\ tev = "none"
    /\ tpc = 0 /\ trbp = 0 /\ tstk = <<>>
    /\ mem = OrigMem
    /\ outfile \in {NoFile} \cup Answers
    /\ visited = {}
    /\ written = FALSE
    /\ bps = EmptyMap /\ source_map = EmptyMap /\ last = 0
    /\ ctl = <<>>
    /\ dpc = "read"
    /\ batch \in BatchFiles
    /\ fpos = 0 /\ argLine = 0 /\ strLine = 0
    /\ success_set = {} /\ fail_set = {}
    /\ printed = <<>> /\ runs = <<>>
    /\ ncmd = 0 /\ command = <<>> /\ dispatched = "none" /\ call0 = NoCall
    /\ frames = <<>>

Engine ==
    \/ wait_for_signal
    \/ continue_execution
    \/ continue_execution_cont
    \/ single_step_instruction
    \/ step_over_breakpoint
    \/ step_over_breakpoint_enable
    \/ single_step_instruction_with_breakpoint_check
    \/ single_step_instruction_print

Next ==
    \/ DriverFork
    \/ DriverWaitpid
    \/ DriverClassify
    \/ DriverAnalyze
    \/ runAdvice
    \/ runAdvice_loop
    \/ runAdvice_catch
    \/ runAdvice_return
    \/ step_in_advice
    \/ step_in_advice_loop
    \/ Engine
    \/ TraceeStep

Spec == Init /\ [][Next]_vars

\* the interactive engine: a tracee at its exec stop, debugger::run about to start
InitDbg ==
    /\ tstat = "stopped" /\ tev = "exec"
    /\ tpc = 0 /\ trbp = 0 /\ tstk = <<>>
    /\ mem = OrigMem
    /\ outfile = NoFile
    /\ visited = {}
    /\ written = FALSE
    /\ bps = EmptyMap /\ source_map = EmptyMap /\ last = 0
    /\ ctl = <<F("run0")>>
    /\ dpc = "repl"
    /\ batch = <<>>
    /\ fpos = 0 /\ argLine = 0 /\ strLine = 0
    /\ success_set = {} /\ fail_set = {}
    /\ printed = <<>> /\ runs = <<>>
    /\ ncmd = 0 /\ command = <<>> /\ dispatched = "none" /\ call0 = NoCall
    /\ frames = <<>>

NextDbg ==
    \/ run
    \/ handle_command
    \/ print_current_line
    \/ step_in
    \/ step_in_loop
    \/ step_out
    \/ step_out_remove
    \/ step_over
    \/ step_over_remove
    \/ Engine
    \/ TraceeStep

SpecDbg == InitDbg /\ [][NextDbg]_vars

\* the engine and the driver are one thread that always takes its next step, and a
\* resumed tracee executes
FairSpec == Spec /\ WF_vars(Next)

(***************************************************************************)
(* Command recognition: handle_command's choice of operation for one first  *)
(* token, over every prefix of a keyword and some other words.             *)
(***************************************************************************)
\* the keywords of the command language and the operation of each
Keywords ==
    {[word |-> K_continue, op |-> "continue"], [word |-> K_break, op |-> "break"],
     [word |-> K_step, op |-> "step"], [word |-> K_next, op |-> "next"],
     [word |-> K_finish, op |-> "finish"], [word |-> K_stepi, op |-> "stepi"],
     [word |-> K_status, op |-> "status"], [word |-> K_register, op |-> "register"],
     [word |-> K_memory, op |-> "memory"], [word |-> K_variables, op |-> "variables"],
     [word |-> K_backtrace, op |-> "backtrace"], [word |-> K_symbol, op |-> "symbol"]}

OtherWords ==
    {<<"q">>, <<"c", "x">>, <<"c", "o", "n", "t", "s">>, <<"s", "t", "e", "p", "s">>,
     <<"n", "e", "x", "t", "i">>, <<"b", "r", "e", "a", "k", "s">>}

Tokens ==
    UNION {{SubSeq(k.word, 1, n) : n \in 1..Len(k.word)} : k \in Keywords} \cup OtherWords

InitCmd ==
    /\ tstat = "stopped" /\ tev = "none"
    /\ tpc = 0 /\ trbp = 0 /\ tstk = <<>>
    /\ mem = OrigMem
    /\ outfile = NoFile
    /\ visited = {}
    /\ written = FALSE
    /\ bps = EmptyMap /\ source_map = EmptyMap /\ last = 0
    /\ ctl = <<F("repl")>>
    /\ dpc = "repl"
    /\ batch = <<>>
    /\ fpos = 0 /\ argLine = 0 /\ strLine = 0
    /\ success_set = {} /\ fail_set = {}
    /\ printed = <<>> /\ runs = <<>>
    /\ ncmd = 0 /\ command \in Tokens /\ dispatched = "none" /\ call0 = NoCall
    /\ frames = <<>>

\* auto command = args[0]; the if / else-if chain selects the operation
handle_command_select ==
    /\ TopIs("repl")
    /\ dispatched = "none"
    /\ dispatched' = Dispatch(command)
    /\ ncmd' = ncmd + 1
    /\ UNCHANGED <<tvars, evars, ctl, dpc, dvars, command, call0, frames>>

SpecCmd == InitCmd /\ [][handle_command_select]_vars

(***************************************************************************)
(* Properties of the batch driver and of advice mode.                      *)
(***************************************************************************)
Range(q) == {q[i] : i \in DOMAIN q}

\* C1: when the driver has processed all cases, the lines printed as "likely to be
\* a fault" are exactly fail_lines \ success_lines, each printed once.
C1_ReportIsDifference ==
    dpc = "done" =>
        /\ Range(printed) = fail_set \ success_set
        /\ \A i, j \in DOMAIN printed : printed[i] = printed[j] => i = j

\* a finished batch with a line reported and a line of fail_set held back
C1_Witness ==
    /\ dpc = "done"
    /\ printed # <<>>
    /\ fail_set \cap success_set # {}

\* C2: a run whose actual answer equals the expected one adds the keys of its hit
\* counter to success_lines and leaves fail_lines alone, any other run adds them to
\* fail_lines and leaves success_lines alone; the hit counter is empty afterwards,
\* and neither set ever loses an element.
C2_Classification ==
    /\ [][(dpc = "classify" /\ dpc' = "read") =>
            /\ source_map' = EmptyMap
            /\ IF outfile = LineText(strLine')
               THEN /\ success_set' = success_set \cup DOMAIN source_map
                    /\ fail_set' = fail_set
               ELSE /\ fail_set' = fail_set \cup DOMAIN source_map
                    /\ success_set' = success_set]_vars
    /\ [][success_set \subseteq success_set' /\ fail_set \subseteq fail_set']_vars

\* a passing and a failing run have both been classified, each with lines hit
C2_Witness ==
    /\ \E i \in DOMAIN runs : runs[i].pass /\ runs[i].keys # {} /\ runs[i].keys \subseteq success_set
    /\ \E j \in DOMAIN runs : ~runs[j].pass /\ runs[j].keys # {} /\ runs[j].keys \subseteq fail_set
    /\ source_map = EmptyMap

\* C3: when a run ends, every line of instrumented code the tracee executed since
\* the stop at main is a key of the run's hit counter, also the lines executed
\* after a call into code without line information has returned.
C3_EveryExecutedLineHit ==
    (dpc = "run" /\ ctl = <<>>) => visited \subseteq DOMAIN source_map

\* C7: a tracee that raises SIGSEGV inside instrumented code, or exits, leads to
\* the stepping loop of runAdvice being left: no call of the engine stays active
\* (runAdvice has returned to the batch driver, or an exception has left it).
C7_RunTerminates ==
    (dpc = "run" /\ (tev = "exit" \/ (tev = "segv" /\ get_line_entry_from_pc(tpc) # 0)))
        ~> (ctl = <<>>)

\* C8: an unrecoverable condition in one run (a lookup failure outside the advice
\* loop, a lost tracee) ends that run but never the batch driver.
C8_DriverSurvives == dpc # "aborted"

\* C10: run k+1 is forked with line 2k+1 and classified against line 2k+2, an
\* expected-output line is never an argument vector, and a finished batch of 2n
\* lines has performed n runs.
C10_RunsFollowPairs ==
    /\ argLine = 0 \/ argLine % 2 = 1
    /\ \A k \in DOMAIN runs : runs[k].arg = 2 * k - 1 /\ runs[k].exp = 2 * k
    /\ dpc = "done" => 2 * Len(runs) = Len(batch)

(***************************************************************************)
(* Properties of the interactive engine.                                   *)
(***************************************************************************)
\* C4: while the tracee is there, every enabled breakpoint of the table has the
\* trap opcode at its address and the original instruction byte saved, also after
\* a breakpoint was requested at an address that already had one.
C4_EnabledMeansArmed ==
    tstat # "gone" =>
        \A a \in DOMAIN bps :
            bps[a].enabled => mem[a] = INT3 /\ bps[a].saved = OrigMem[a]

Returned(ops) == TopIs("repl") /\ dispatched \in ops

\* C5: when step_over or step_out has returned normally the table holds the
\* addresses it held at the call, and with the tracee stopped its entries and the
\* tracee's code bytes are those of the call: every temporary breakpoint is gone
\* and restored, no earlier breakpoint was removed.
C5_TableRestored ==
    Returned({"next", "finish"}) =>
        /\ DOMAIN bps = DOMAIN call0.b
        /\ tstat = "stopped" => bps = call0.b /\ mem = call0.m

\* next has returned at a temporary breakpoint of f (none is left at the stop) with
\* the user's breakpoints at f's return address and at a line of f still in place
C5_Witness ==
    /\ Returned({"next"})
    /\ tstat = "stopped"
    /\ get_function_from_pc(tpc) = 2
    /\ Code[tpc].op # "fault"
    /\ tpc \notin DOMAIN bps
    /\ ReturnAddress \in DOMAIN bps
    /\ \E a \in DOMAIN bps : get_function_from_pc(a) = 2

\* C6: whichever way step_over or step_out is left, also by the lookup failure of
\* a trap outside instrumented code, no temporary breakpoint is left in the table
\* or armed in the memory of the stopped tracee.
C6_NoTemporaryLeft ==
    (/\ dispatched \in {"next", "finish"}
     /\ TopIs("repl") \/ dpc = "aborted"
     /\ tstat = "stopped") =>
        DOMAIN bps = DOMAIN call0.b /\ mem = call0.m

(***************************************************************************)
(* Properties of command recognition.                                      *)
(***************************************************************************)
\* C9: a first token that is a prefix of exactly one keyword is dispatched to that
\* keyword's operation, the full keyword included.
C9_UniquePrefixDispatches ==
    dispatched # "none" =>
        \A k \in Keywords :
            (/\ is_prefix(command, k.word)
             /\ \A o \in Keywords \ {k} : ~is_prefix(command, o.word))
                => dispatched = k.op

(***************************************************************************)
(* Properties of the driver's wait for the tracee.                         *)
(***************************************************************************)
\* C11: the driver reads 1.txt only after the run's tracee has terminated, and
\* whenever runAdvice has returned the driver eventually reaches the read.
C11_ReadAfterExit ==
    /\ [](dpc = "classify" => tstat = "gone")
    /\ (dpc = "run" /\ ctl = <<>>) ~> (dpc = "classify")

(***************************************************************************)
(* Properties of break file:line.                                          *)
(***************************************************************************)
\* f is n, or n ends with a path separator followed by f
PathSuffix(f, n) ==
    \/ f = n
    \/ /\ Len(f) < Len(n)
       /\ SubSeq(n, Len(n) - Len(f) + 1, Len(n)) = f
       /\ n[Len(n) - Len(f)] = "/"

\* C12: break F:L installs at most one breakpoint, at the first statement row of
\* line L of a compilation unit whose name has F as a path suffix, and that address
\* maps back through find_address to a statement row of line L; when there is no
\* such row the table and the tracee's memory are unchanged.
C12_SourceLineBreakpoint ==
    (/\ TopIs("repl")
     /\ dispatched = "break"
     /\ call0.arg.kind = "line"
     /\ tstat = "stopped") =>
        LET rows == {i \in 1..Len(LineTable) :
                        /\ LineTable[i].is_stmt
                        /\ LineTable[i].line = call0.arg.line}
        IN  IF PathSuffix(call0.arg.file, CuName) /\ rows # {}
            THEN LET a == LineTable[Min(rows)].address
                     e == FindAddress(a)
                 IN  /\ DOMAIN bps = DOMAIN call0.b \cup {a}
                     /\ \A x \in DOMAIN call0.b \ {a} : bps[x] = call0.b[x]
                     /\ bps[a].enabled /\ mem[a] = INT3
                     /\ e # 0
                     /\ LineTable[e].line = call0.arg.line /\ LineTable[e].is_stmt
            ELSE bps = call0.b /\ mem = call0.m

(***************************************************************************)
(* Properties of breakpoint arming.                                        *)
(***************************************************************************)
\* enable() and then disable() on the breakpoint bp at a, from memory m
EnableDisable(bp, m, a) ==
    LET e == BpEnable(bp, m, a) IN BpDisable(e.bp, e.m, a)

\* disable() and then enable() on the breakpoint bp at a, from memory m
DisableEnable(bp, m, a) ==
    LET d == BpDisable(bp, m, a) IN BpEnable(d.bp, d.m, a)

\* C13: on every breakpoint of the table of a stopped tracee, a second enable()
\* or disable() changes nothing; enable() then disable() on a disarmed breakpoint
\* gives back the memory it started from, having changed the byte at the address
\* only; disable() then enable() on an armed breakpoint leaves the trap opcode in
\* memory and the original byte saved.
C13_ArmingLaws ==
    tstat = "stopped" =>
        \A a \in DOMAIN bps :
            LET e == BpEnable(bps[a], mem, a)
                d == BpDisable(bps[a], mem, a)
            IN  /\ BpEnable(e.bp, e.m, a) = e
                /\ BpDisable(d.bp, d.m, a) = d
                /\ ~bps[a].enabled =>
                        /\ EnableDisable(bps[a], mem, a).m = mem
                        /\ \A x \in Addr \ {a} : e.m[x] = mem[x]
                /\ bps[a].enabled =>
                        /\ DisableEnable(bps[a], mem, a).m[a] = INT3
                        /\ DisableEnable(bps[a], mem, a).bp.saved = OrigMem[a]

(***************************************************************************)
(* Properties of stepping.                                                 *)
(***************************************************************************)
Disabled == {a \in DOMAIN bps : ~bps[a].enabled}

\* C14: while the tracee is there at most one breakpoint of the table is disabled,
\* only inside a step_over_breakpoint that has not returned yet, and it is the one
\* at the PC the single-step is taken from; every other entry stays enabled.
C14_OneDisabledDuringStep ==
    tstat # "gone" =>
        /\ Cardinality(Disabled) <= 1
        /\ \A a \in Disabled : \E i \in DOMAIN ctl : ctl[i].l = "sob1" /\ ctl[i].a = a
        /\ TopIs("ss0") => \A a \in Disabled : a = tpc

\* the single-step over a disabled breakpoint has been taken, with another
\* breakpoint in the table
C14_Witness ==
    /\ TopIs("sob1")
    /\ tstat = "stopped"
    /\ Disabled = {Top.a}
    /\ tpc # Top.a
    /\ DOMAIN bps # {Top.a}

\* C15: finish called inside a function, when it returns without a segmentation
\* fault and without having stopped at a breakpoint that was set before, has the
\* tracee stopped at the return address read from rbp + 8 at the call, which is
\* the return address of the function the call was made in, and in the frame of
\* that function's caller.
C15_FinishReachesCaller ==
    (/\ Returned({"finish"})
     /\ tstat = "stopped"
     /\ get_function_from_pc(call0.pc) # 0
     /\ tpc \notin DOMAIN call0.b
     /\ Code[tpc].op # "fault") =>
        /\ tpc = call0.ra
        /\ call0.ra = call0.ret
        /\ Len(tstk) = call0.depth

\* the addresses whose breakpoint a step_over_breakpoint call is stepping over
SteppedOver == {ctl[i].a : i \in {j \in DOMAIN ctl : ctl[j].l = "sob1"}}

\* C16: continue_execution steps over the breakpoint at the PC, then resumes, then
\* waits: the single-step over a breakpoint executes the original instruction of
\* that address (the trap opcode is not in memory during the step, so the tracee
\* cannot trap again where it stands), and when the tracee runs after PTRACE_CONT
\* every breakpoint of the table is enabled and armed.
C16_ContinueProtocol ==
    /\ tstat = "stepping" => \A a \in SteppedOver : a = tpc /\ mem[a] = OrigMem[a]
    /\ tstat = "running" =>
            /\ TopIs("wait") /\ SteppedOver = {}
            /\ \A a \in DOMAIN bps : bps[a].enabled /\ mem[a] = INT3

(***************************************************************************)
(* Properties of wait_for_signal.                                          *)
(***************************************************************************)
\* wait_for_signal collects the stop sig of a tracee that is there
Collects(sig) == TopIs("wait") /\ tstat = "stopped" /\ tev = sig /\ tev' = "none"

\* C17: collecting a breakpoint trap sets the PC back by exactly 1, onto the
\* address of an enabled breakpoint of the table, and changes nothing else of the
\* tracee; collecting a single-step completion changes nothing of the tracee.
C17_TrapHandling ==
    /\ [][Collects("trap") =>
            /\ tpc' = tpc - 1
            /\ tpc' \in DOMAIN bps /\ bps[tpc'].enabled
            /\ UNCHANGED <<tstat, trbp, tstk, mem, bps>>]_vars
    /\ [][Collects("step") => UNCHANGED <<tstat, tpc, trbp, tstk, mem, bps>>]_vars

(***************************************************************************)
(* Properties of step_in.                                                  *)
(***************************************************************************)
\* C18: when step_in has returned normally with the tracee stopped, the PC maps
\* to a line other than the line of the PC at the call (so the tracee has been
\* stepped), and the breakpoint table and the tracee's code bytes are those of the
\* call: the breakpoints on the way were stepped over and armed again.
C18_StepInChangesLine ==
    (Returned({"step"}) /\ tstat = "stopped") =>
        /\ get_line_entry_from_pc(tpc) # 0
        /\ get_line_entry_from_pc(call0.pc) # 0
        /\ LineOf(tpc) # LineOf(call0.pc)
        /\ tpc # call0.pc
        /\ bps = call0.b
        /\ mem = call0.m

\* step has returned from a PC that had a breakpoint, with a second breakpoint in
\* the table
C18_Witness ==
    /\ Returned({"step"})
    /\ tstat = "stopped"
    /\ call0.pc \in DOMAIN bps
    /\ Cardinality(DOMAIN bps) >= 2

(***************************************************************************)
(* Properties of the hit counter.                                          *)
(***************************************************************************)
\* the lines of the compilation unit and the line a stop at pc is on (0: none)
SourceLines == {LineTable[i].line : i \in 1..(Len(LineTable) - 1)}
StopLine(pc) == IF get_line_entry_from_pc(pc) = 0 THEN 0 ELSE LineOf(pc)

Hit(sm, x) == IF x \in DOMAIN sm THEN sm[x] ELSE 0

\* the engine takes note of a stop of the tracee on line x: a breakpoint trap is
\* collected, or a single step of the advice loop has been taken
Reports(x) ==
    \/ Collects("trap") /\ StopLine(tpc - 1) = x
    \/ TopIs("ssbc1") /\ ctl' # ctl /\ tstat = "stopped" /\ StopLine(tpc) = x

\* C19: during a run hit[L] grows by one exactly when the engine takes note of a
\* stop on line L and the stop before it was on another line, and by nothing
\* otherwise; the line of the latest stop is remembered, and a run starts with no
\* line remembered and no hits, so that its first stop is counted.
C19_HitOncePerEntry ==
    /\ [][(dpc = "run" /\ dpc' = "run") =>
            \A x \in SourceLines :
                Hit(source_map', x) =
                    Hit(source_map, x) + (IF Reports(x) /\ last # x THEN 1 ELSE 0)]_vars
    /\ [][\A x \in SourceLines : Reports(x) => last' = x]_vars
    /\ [](TopIs("ra0") => last = 0 /\ source_map = EmptyMap)

(***************************************************************************)
(* Properties of the advice loop.                                          *)
(***************************************************************************)
\* where runAdvice stands: in its stepping loop, or past a caught lookup failure
InLoop == dpc = "run" /\ ctl # <<>> /\ ctl[1].l = "raLoop"
AfterFailure == dpc = "run" /\ ctl # <<>> /\ ctl[1].l \in {"raCatch", "raFin"}

\* the engine issues PTRACE_CONT, PTRACE_SINGLESTEP
IssuesCont == TopIs("cont1") /\ ctl' # ctl
IssuesStep == TopIs("ss0") /\ ctl' # ctl

\* the call of continue_execution in the catch clause has returned, or runAdvice has
FinalContinueDone == dpc = "run" /\ (ctl = <<F("raFin")>> \/ ctl = <<>>)

\* C20: in the stepping loop every iteration is a step_in_advice and no continue
\* is issued; a caught lookup failure is followed by the call of
\* continue_execution, which issues the run's one further PTRACE_CONT; from the
\* failure on the run takes no single step, calls no second continue_execution
\* and never goes back to the loop; once that continue_execution has returned the
\* tracee is not resumed and the hit counter is not updated for the rest of the run.
C20_OneFinalContinue ==
    /\ [][InLoop =>
            /\ ~IssuesCont
            /\ Len(ctl) >= 2 => ctl[2].l \in {"sia0", "sia1"}]_vars
    /\ [][TopIs("raCatch") => ctl' = <<F("raFin"), F("cont0")>>]_vars
    /\ [][AfterFailure =>
            /\ ~IssuesStep
            /\ IssuesCont => ctl = <<F("raFin"), F("cont1")>>
            /\ ctl[1].l = "raFin" =>
                    ~(ctl' # ctl /\ ctl' # <<>> /\ ctl'[Len(ctl')].l = "cont0")
            /\ ctl' = <<>> \/ ctl'[1].l \in {"raCatch", "raFin"}]_vars
    /\ [][FinalContinueDone =>
            /\ ctl' = <<>> \/ ctl' = ctl
            /\ tstat' \notin {"running", "stepping"}
            /\ dpc' = "run" => source_map' = source_map]_vars

\* the final continue_execution of a run that stepped through three lines or more
\* has returned, the tracee having exited
C20_Witness ==
    /\ dpc = "run"
    /\ ctl = <<F("raFin")>>
    /\ tstat = "gone"
    /\ Cardinality(DOMAIN source_map) >= 3

(***************************************************************************)
(* Properties of step_over.                                                *)
(***************************************************************************)
\* step_over has installed its breakpoints and is about to call continue_execution
StepOverArmed ==
    /\ Len(ctl) >= 2
    /\ TopIs("cont0")
    /\ ctl[Len(ctl) - 1].l = "sv1"
    /\ dispatched = "next"

\* the addresses of the line-table rows inside function f
RowAddresses(f) ==
    {LineTable[i].address : i \in {j \in 1..Len(LineTable) :
        /\ LineTable[j].address >= Functions[f].low_pc
        /\ LineTable[j].address < Functions[f].high_pc}}

\* C21: when step_over, called inside a function f, is about to resume the
\* tracee, a breakpoint is armed at every line-table address of f other than the
\* address of the current row and at the return address read from rbp + 8, and
\* the recorded temporaries are those of these addresses that had no entry at the
\* call, each recorded once; and when next has ended, the tracee has stopped in f
\* or at the return address of f's frame, unless it stopped at a breakpoint set
\* before or on a segmentation fault.
C21_StepOverArms ==
    LET f == get_function_from_pc(call0.pc) IN
    /\ (StepOverArmed /\ tstat = "stopped") =>
          LET cur == LineTable[get_line_entry_from_pc(call0.pc)].address
              want == (RowAddresses(f) \ {cur}) \cup {call0.ra}
              t == ctl[Len(ctl) - 1].t
          IN  /\ f # 0
              /\ \A a \in want : a \in DOMAIN bps /\ bps[a].enabled /\ mem[a] = INT3
              /\ Range(t) = want \ DOMAIN call0.b
              /\ Cardinality(Range(t)) = Len(t)
    /\ (/\ dispatched = "next"
        /\ TopIs("repl") \/ dpc = "aborted"
        /\ f # 0) =>
          /\ tstat = "stopped"
          /\ \/ tpc \in DOMAIN call0.b
             \/ Code[tpc].op = "fault"
             \/ get_function_from_pc(tpc) = f
             \/ tpc = call0.ret

(***************************************************************************)
(* Properties of print_backtrace.                                          *)
(***************************************************************************)
\* the callers of a frame of func with return address ra, whose caller has frame
\* pointer fp: innermost first, up to and including the first main
RECURSIVE Callers(_, _, _)
Callers(func, ra, fp) ==
    IF Functions[func].name = "main" \/ get_function_from_pc(ra) = 0 THEN <<>>
    ELSE <<get_function_from_pc(ra)>>
            \o Callers(get_function_from_pc(ra), ReadStack(fp - 1), ReadStack(fp))

\* the functions on the tracee's call stack, from the one containing the PC
CallStack ==
    <<get_function_from_pc(tpc)>>
        \o Callers(get_function_from_pc(tpc), FrameReturn,
                   IF InPrologueOrEpilogue THEN trbp ELSE ReadStack(trbp))

\* C22: a backtrace command given with the PC inside a function returns normally
\* and has printed the function of the PC as frame 0, then the callers on the
\* tracee's call stack in order, numbered consecutively, the last and only the
\* last frame being main; with the PC inside main it has printed exactly one
\* frame and followed no saved frame pointer.
C22_BacktraceFrames ==
    (/\ dispatched = "backtrace"
     /\ TopIs("repl") \/ dpc = "aborted"
     /\ tstat = "stopped"
     /\ get_function_from_pc(tpc) # 0) =>
        /\ dpc # "aborted"
        /\ Len(frames) = Len(CallStack)
        /\ \A i \in DOMAIN frames :
              /\ frames[i].func = CallStack[i]
              /\ frames[i].number = i - 1
              /\ Functions[frames[i].func].name = "main" <=> i = Len(frames)
        /\ Functions[get_function_from_pc(tpc)].name = "main" =>
              Len(frames) = 1 /\ print_backtrace(tpc, trbp).derefs = 0

(***************************************************************************)
(* Properties of the enabled flag.                                         *)
(***************************************************************************)
\* the addresses the instruction at a may pass control to
Successors(a) ==
    CASE Code[a].op \in {"enter", "leave", "write"} -> {a + 1}
      [] Code[a].op = "br" -> {Code[a].tgt, a + 1}
      [] Code[a].op = "call" -> {Code[a].tgt}
      [] Code[a].op = "ret" -> Addr \ {a}
      [] OTHER -> {}

\* C23: outside a step_over_breakpoint that has not returned, so whenever an
\* engine operation has returned normally, every breakpoint of the table is
\* enabled; step_over_breakpoint never finds a disabled entry at the PC; and when
\* the step of single_step_instruction_with_breakpoint_check has come back with
\* the tracee stopped, the tracee has executed the one instruction it stood on
\* (an instruction that raises SIGSEGV excepted).
C23_AlwaysEnabledAndStepping ==
    /\ SteppedOver = {} => Disabled = {}
    /\ TopIs("sob0") => \A p \in PcRead : p \in DOMAIN bps => bps[p].enabled
    /\ (TopIs("ssbc1") /\ tstat = "stopped" /\ Code[Top.a].op # "fault") =>
            tpc \in Successors(Top.a)

(***************************************************************************)
(* Properties of the actual answer.                                        *)
(***************************************************************************)
\* the driver classifies the run
Classifies == dpc = "classify" /\ dpc' = "read"

\* what the tracee of the current run has put out: its 1.txt, or nothing
OwnAnswer == IF written THEN outfile ELSE NoFile

\* C24: a run is classified by comparing the expected answer with what its own
\* tracee wrote to 1.txt (nothing, when it wrote nothing): its lines go to
\* success_set when these are equal and to fail_set otherwise, whatever an
\* earlier run left in 1.txt; and every run starts with an empty breakpoint table
\* and an empty hit counter.
C24_OwnAnswerClassifies ==
    /\ [][Classifies =>
            IF OwnAnswer = LineText(strLine')
            THEN /\ success_set' = success_set \cup DOMAIN source_map
                 /\ fail_set' = fail_set
            ELSE /\ fail_set' = fail_set \cup DOMAIN source_map
                 /\ success_set' = success_set]_vars
    /\ [](TopIs("ra0") => bps = EmptyMap /\ source_map = EmptyMap)

====
